---- MODULE Spec2Model ----
(***************************************************************************)
(* Model of the admin back office of the Marseille Immobilier directory:   *)
(* the handlers of admin_routes.py acting on the tables of models.py and   *)
(* on the upload folders (utils.save_uploaded_file / os.remove).           *)
(*                                                                         *)
(* Text values (names, web sites, file names) are sequences of one-letter  *)
(* strings so that strip(), startswith() and the extension test are        *)
(* computed as the code computes them.  None / SQL NULL is NULL.           *)
(* Columns that no handler reads back (description, alt_text, link_url,    *)
(* created_at, updated_at, billing_period) are left out of the rows.       *)
(***************************************************************************)
EXTENDS Integers, Sequences, FiniteSets, TLC

\* ------------------------------------------------------------------ bounds
MaxAgencyId == 6     \* agency ids handed out by the database
MaxPlanId == 4       \* plan ids handed out by the database
MaxImageId == 3      \* agency image ids handed out by the database
MaxItemId == 3       \* carousel item ids handed out by the database
MaxFileId == 4       \* file names handed out by save_uploaded_file
MaxListLen == 3      \* longest id list sent to a reorder endpoint
MaxBatch == 2        \* most files in one multi-file upload
MaxShortList == 1    \* longest id list where reordering is a side activity
MaxReorderId == 4    \* ids a reorder request may name (one more than the rows)
MaxInflight == 2     \* requests that may be in progress at the same time

NULL == 0

VARIABLES plans, agencies, images, items, settings, files, seq, last, inflight

vars == <<plans, agencies, images, items, settings, files, seq, last, inflight>>

\* ------------------------------------------------------------ text helpers
RECURSIVE lstrip(_)
lstrip(s) ==
  IF s # <<>> /\ Head(s) = " " THEN lstrip(Tail(s)) ELSE s

RECURSIVE rstrip(_)
rstrip(s) ==
  IF s # <<>> /\ s[Len(s)] = " " THEN rstrip(SubSeq(s, 1, Len(s) - 1)) ELSE s

strip(s) == rstrip(lstrip(s))

startswith(s, p) == Len(s) >= Len(p) /\ SubSeq(s, 1, Len(p)) = p

LowerChar(c) ==
  CASE c = "P" -> "p" [] c = "N" -> "n" [] c = "G" -> "g" [] c = "J" -> "j"
    [] c = "E" -> "e" [] c = "X" -> "x" [] c = "A" -> "a" [] c = "M" -> "m"
    [] c = "B" -> "b" [] c = "I" -> "i" [] c = "F" -> "f" [] c = "O" -> "o"
    [] c = "S" -> "s" [] c = "V" -> "v" [] c = "W" -> "w" [] OTHER -> c

lower(s) == [i \in 1..Len(s) |-> LowerChar(s[i])]

\* filename.rsplit('.', 1)[1]: what follows the last dot
rsplit_ext(s) ==
  LET dots == {i \in 1..Len(s) : s[i] = "."}
      d == CHOOSE i \in dots : \A j \in dots : j <= i
  IN SubSeq(s, d + 1, Len(s))

ALLOWED_EXTENSIONS ==
  { <<"p","n","g">>, <<"j","p","g">>, <<"j","p","e","g">>,
    <<"g","i","f">>, <<"s","v","g">>, <<"w","e","b","p">> }

allowed_file(filename) ==
  /\ \E i \in 1..Len(filename) : filename[i] = "."
  /\ lower(rsplit_ext(filename)) \in ALLOWED_EXTENSIONS

\* "file and file.filename and allowed_file(file.filename)"; an absent
\* form field and an empty file name are both <<>>
valid_upload(u) == u # <<>> /\ allowed_file(u)

HTTP == <<"h","t","t","p",":","/","/">>
HTTPS == <<"h","t","t","p","s",":","/","/">>

\* a test that knows only the http:// prefix
ensure_protocol_http_only(website) ==
  IF ~startswith(website, HTTP) THEN HTTPS \o website ELSE website

\* "Ensure website has protocol"
ensure_protocol(website) ==
  IF ~(startswith(website, HTTP) \/ startswith(website, HTTPS))
  THEN HTTPS \o website
  ELSE website

\* ------------------------------------------------------------- row helpers
Max(S) == CHOOSE x \in S : \A y \in S : y <= x

\* the function f with the row k added or replaced
Put(f, k, v) == [x \in DOMAIN f \cup {k} |-> IF x = k THEN v ELSE f[x]]

\* the function f without the rows in ks
Drop(f, ks) == [x \in DOMAIN f \ ks |-> f[x]]

Resp(op, id, result, ids) ==
  [op |-> op, id |-> id, result |-> result, ids |-> ids]

\* the image rows of one agency (AgencyImage.query.filter_by(agency_id=...))
images_of(imgs, agency_id) == {i \in DOMAIN imgs : imgs[i].agency_id = agency_id}

\* os.path.join(UPLOAD_FOLDER, subfolder, filename)
path(subfolder, filename) == <<subfolder, filename>>

\* the request's outside conditions: whether save_uploaded_file succeeds,
\* whether os.remove of an existing file succeeds, whether commit succeeds
\* and whether the database enforces the foreign keys of models.py (the
\* database is chosen by configuration outside these sources)
AllEnv == [save_ok : BOOLEAN, rm_ok : BOOLEAN, commit_ok : BOOLEAN,
           enforce_fk : BOOLEAN]
OkEnv == [save_ok |-> TRUE, rm_ok |-> TRUE, commit_ok |-> TRUE,
          enforce_fk |-> TRUE]
CommitEnv == {e \in AllEnv : e.save_ok /\ e.rm_ok /\ e.enforce_fk}

\* db.session.commit() of a row that refers to plan_id
commit_succeeds(env, pls, plan_id) ==
  env.commit_ok /\ (env.enforce_fk => plan_id = NULL \/ plan_id \in DOMAIN pls)

\* a reorder loop that numbers the places from one
RECURSIVE reorder_loop_from_one(_, _, _, _)
reorder_loop_from_one(rows, ids, index, eligible) ==
  IF index >= Len(ids) THEN rows
  ELSE LET id == ids[index + 1]
           next == IF id \in DOMAIN rows /\ id \in eligible
                   THEN [rows EXCEPT ![id].sort_order = index + 1]
                   ELSE rows
       IN reorder_loop_from_one(next, ids, index + 1, eligible)

\* for index, id in enumerate(ids): row = Model.query.get(id);
\* if row [and it is owned]: row.sort_order = index
RECURSIVE reorder_loop(_, _, _, _)
reorder_loop(rows, ids, index, eligible) ==
  IF index >= Len(ids) THEN rows
  ELSE LET id == ids[index + 1]
           next == IF id \in DOMAIN rows /\ id \in eligible
                   THEN [rows EXCEPT ![id].sort_order = index]
                   ELSE rows
       IN reorder_loop(next, ids, index + 1, eligible)

\* no request is in progress
Idle == [op |-> "idle"]

NoInflight == [r \in 1..MaxInflight |-> Idle]

\* ------------------------------------------------ state after construction
Basic == <<"B","a","s","i","c">>
Premium == <<"P","r","e","m","i","u","m">>

\* create_default_plans on an empty plan table
default_plans ==
  (1 :> [name |-> Basic, price |-> 9, is_active |-> TRUE]) @@
  (2 :> [name |-> Premium, price |-> 19, is_active |-> TRUE])

sample_agency(n, plan_id) ==
  [name |-> <<"a">>, city |-> <<"m">>, website |-> HTTPS \o <<"a">>,
   logo_filename |-> NULL, cover_filename |-> NULL, plan_id |-> plan_id,
   is_active |-> TRUE, sort_order |-> n]

\* create_sample_agencies on an empty agency table
sample_agencies ==
  (1 :> sample_agency(1, 2)) @@ (2 :> sample_agency(2, 1)) @@
  (3 :> sample_agency(3, 2)) @@ (4 :> sample_agency(4, 1))

\* initialize_application on an empty database and empty upload folders
InitSetup ==
  /\ plans = default_plans
  /\ agencies = sample_agencies
  /\ images = <<>>
  /\ items = <<>>
  /\ settings = <<>>
  /\ files = {}
  /\ seq = [plan |-> 3, agency |-> 5, image |-> 1, item |-> 1,
            settings |-> 1, file |-> 1]
  /\ last = Resp("initialize_application", NULL, "ok", <<>>)
  /\ inflight = NoInflight

\* --------------------------------------------------------- agency gallery
\* "if not agency.images": agency.images is loaded on its first use and kept
\* for the rest of the request; rows added since by agency_id are not in it
add_is_primary(imgs, agency_id, j) == images_of(imgs, agency_id) = {}

\* AgencyImage.query.filter_by(agency_id=agency_id).count(): the query
\* flushes the rows added so far in this request and counts them too
add_sort_order(imgs, agency_id, j) ==
  Cardinality(images_of(imgs, agency_id)) + (j - 1)

add_agency_images(agency_id, uploads, env) ==
  LET valid == SelectSeq(uploads, valid_upload)
      added_count == IF env.save_ok THEN Len(valid) ELSE 0
      saved == {path("agencies", seq.file + j - 1) : j \in 1..added_count}
      new_ids == [j \in 1..added_count |-> seq.image + j - 1]
      row(j) == [agency_id |-> agency_id,
                 image_filename |-> seq.file + j - 1,
                 is_primary |-> add_is_primary(images, agency_id, j),
                 sort_order |-> add_sort_order(images, agency_id, j)]
      inserted == [i \in DOMAIN images \cup {new_ids[j] : j \in 1..added_count} |->
                     IF i \in DOMAIN images THEN images[i]
                     ELSE row(i - seq.image + 1)]
  IN
  /\ seq.image + added_count - 1 <= MaxImageId
  /\ seq.file + added_count - 1 <= MaxFileId
  /\ IF agency_id \notin DOMAIN agencies
     THEN /\ last' = Resp("add_agency_images", agency_id, "not_found", <<>>)
          /\ UNCHANGED <<images, files, seq>>
     ELSE IF added_count = 0
     THEN /\ last' = Resp("add_agency_images", agency_id, "invalid", <<>>)
          /\ UNCHANGED <<images, files, seq>>
     ELSE /\ files' = files \cup saved
          /\ IF env.commit_ok
             THEN /\ images' = inserted
                  /\ seq' = [seq EXCEPT !.file = @ + added_count,
                                        !.image = @ + added_count]
                  /\ last' = Resp("add_agency_images", agency_id, "ok", new_ids)
             ELSE /\ images' = images
                  /\ seq' = [seq EXCEPT !.file = @ + added_count]
                  /\ last' = Resp("add_agency_images", agency_id, "error", <<>>)
  /\ UNCHANGED <<plans, agencies, items, settings, inflight>>

\* a delete that hands the primary flag on to the lowest remaining image
delete_agency_image_reassign(image_id, env) ==
  /\ IF image_id \notin DOMAIN images
     THEN /\ last' = Resp("delete_agency_image", image_id, "not_found", <<>>)
          /\ UNCHANGED <<images, files>>
     ELSE LET rest == Drop(images, {image_id})
              own == images_of(rest, images[image_id].agency_id)
          IN /\ files' = files \ {path("agencies", images[image_id].image_filename)}
             /\ images' = [i \in DOMAIN rest |->
                             IF images[image_id].is_primary /\ own # {}
                                /\ i = CHOOSE m \in own : \A n \in own : m <= n
                             THEN [rest[i] EXCEPT !.is_primary = TRUE]
                             ELSE rest[i]]
             /\ last' = Resp("delete_agency_image", image_id, "ok", <<>>)
  /\ UNCHANGED <<plans, agencies, items, settings, seq, inflight>>

delete_agency_image(image_id, env) ==
  /\ IF image_id \notin DOMAIN images
     THEN /\ last' = Resp("delete_agency_image", image_id, "not_found", <<>>)
          /\ UNCHANGED <<images, files>>
     ELSE LET image_path == path("agencies", images[image_id].image_filename)
              exists == image_path \in files
          IN IF exists /\ ~env.rm_ok
             THEN \* os.remove raises: rollback, nothing was removed
                  /\ last' = Resp("delete_agency_image", image_id, "error", <<>>)
                  /\ UNCHANGED <<images, files>>
             ELSE /\ files' = files \ {image_path}
                  /\ IF env.commit_ok
                     THEN /\ images' = Drop(images, {image_id})
                          /\ last' = Resp("delete_agency_image", image_id, "ok", <<>>)
                     ELSE /\ images' = images
                          /\ last' = Resp("delete_agency_image", image_id, "error", <<>>)
  /\ UNCHANGED <<plans, agencies, items, settings, seq, inflight>>

\* a set_primary that forgets to clear the other flags
clear_primary_keep(imgs, agency_id) == imgs

\* AgencyImage.query.filter_by(agency_id=agency_id).update({'is_primary': False})
clear_primary(imgs, agency_id) ==
  [i \in DOMAIN imgs |->
     IF imgs[i].agency_id = agency_id
     THEN [imgs[i] EXCEPT !.is_primary = FALSE]
     ELSE imgs[i]]

set_primary_agency_image(image_id, env) ==
  /\ IF image_id \notin DOMAIN images
     THEN /\ last' = Resp("set_primary_agency_image", image_id, "not_found", <<>>)
          /\ images' = images
     ELSE IF env.commit_ok
     THEN /\ images' = [clear_primary(images, images[image_id].agency_id)
                          EXCEPT ![image_id].is_primary = TRUE]
          /\ last' = Resp("set_primary_agency_image", image_id, "ok", <<>>)
     ELSE /\ images' = images
          /\ last' = Resp("set_primary_agency_image", image_id, "error", <<>>)
  /\ UNCHANGED <<plans, agencies, items, settings, files, seq, inflight>>

\* a reorder that does not look at the owner of an image
reorder_agency_images_any(agency_id, image_ids, env) ==
  /\ IF env.commit_ok
     THEN /\ images' = reorder_loop(images, image_ids, 0, DOMAIN images)
          /\ last' = Resp("reorder_agency_images", agency_id, "ok", <<>>)
     ELSE /\ images' = images
          /\ last' = Resp("reorder_agency_images", agency_id, "error", <<>>)
  /\ UNCHANGED <<plans, agencies, items, settings, files, seq, inflight>>

reorder_agency_images(agency_id, image_ids, env) ==
  /\ IF env.commit_ok
     THEN /\ images' = reorder_loop(images, image_ids, 0, images_of(images, agency_id))
          /\ last' = Resp("reorder_agency_images", agency_id, "ok", <<>>)
     ELSE /\ images' = images
          /\ last' = Resp("reorder_agency_images", agency_id, "error", <<>>)
  /\ UNCHANGED <<plans, agencies, items, settings, files, seq, inflight>>

\* ---------------------------------------------------------------- agencies
\* a greatest sort order that is -1 for the empty table
max_order_below(ags) ==
  IF DOMAIN ags = {} THEN -1 ELSE Max({ags[a].sort_order : a \in DOMAIN ags})

\* db.session.query(db.func.max(Agency.sort_order)).scalar() or 0
max_order(ags) ==
  LET m == IF DOMAIN ags = {} THEN NULL
           ELSE Max({ags[a].sort_order : a \in DOMAIN ags})
  IN IF m = NULL THEN 0 ELSE m

\* a sort order taken from the number of rows, as the carousel does
next_sort_order_count(ags) == Cardinality(DOMAIN ags)

\* agency.sort_order = max_order + 1
next_sort_order(ags) == max_order(ags) + 1

\* a test that looks at the name alone
all_present_name(name, city, website) == name # <<>>

\* if not all([name, city, website])
all_present(name, city, website) == name # <<>> /\ city # <<>> /\ website # <<>>

add_agency(form, logo, cover, env) ==
  LET name == strip(form.name)
      city == strip(form.city)
      website == ensure_protocol(strip(form.website))
      n_logo == IF valid_upload(logo) /\ env.save_ok THEN 1 ELSE 0
      n_cover == IF valid_upload(cover) /\ env.save_ok THEN 1 ELSE 0
      logo_filename == IF n_logo = 1 THEN seq.file ELSE NULL
      cover_filename == IF n_cover = 1 THEN seq.file + n_logo ELSE NULL
      saved == {path("logos", logo_filename) : x \in 1..n_logo} \cup
               {path("covers", cover_filename) : x \in 1..n_cover}
      agency == [name |-> name, city |-> city, website |-> website,
                 logo_filename |-> logo_filename,
                 cover_filename |-> cover_filename,
                 plan_id |-> form.plan_id, is_active |-> TRUE,
                 sort_order |-> next_sort_order(agencies)]
  IN
  /\ seq.agency <= MaxAgencyId
  /\ seq.file + n_logo + n_cover - 1 <= MaxFileId
  /\ IF ~all_present(name, city, strip(form.website))
     THEN /\ last' = Resp("add_agency", NULL, "invalid", <<>>)
          /\ UNCHANGED <<agencies, files, seq>>
     ELSE /\ files' = files \cup saved
          /\ IF commit_succeeds(env, plans, form.plan_id)
             THEN /\ agencies' = Put(agencies, seq.agency, agency)
                  /\ seq' = [seq EXCEPT !.agency = @ + 1,
                                        !.file = @ + n_logo + n_cover]
                  /\ last' = Resp("add_agency", seq.agency, "ok", <<>>)
             ELSE /\ agencies' = agencies
                  /\ seq' = [seq EXCEPT !.file = @ + n_logo + n_cover]
                  /\ last' = Resp("add_agency", NULL, "error", <<>>)
  /\ UNCHANGED <<plans, images, items, settings, inflight>>

\* agency_image.sort_order = len(agency.images): agency.images is loaded on
\* its first use and kept; the rows added by agency_id are not in it
edit_sort_order(imgs, agency_id, j) == Cardinality(images_of(imgs, agency_id))

\* is_primary is not set by edit_agency: the column default
edit_is_primary(imgs, agency_id, j) == FALSE

edit_agency(agency_id, form, logo, cover, gallery, env) ==
  LET agency == agencies[agency_id]
      name == strip(form.name)
      city == strip(form.city)
      website == ensure_protocol(strip(form.website))
      new_logo == valid_upload(logo)
      new_cover == valid_upload(cover)
      old_logo == path("logos", agency.logo_filename)
      old_cover == path("covers", agency.cover_filename)
      rm_logo == new_logo /\ agency.logo_filename # NULL /\ old_logo \in files
      rm_cover == new_cover /\ agency.cover_filename # NULL /\ old_cover \in files
      logo_raises == rm_logo /\ ~env.rm_ok
      cover_raises == ~logo_raises /\ rm_cover /\ ~env.rm_ok
      n_logo == IF new_logo /\ env.save_ok THEN 1 ELSE 0
      n_cover == IF new_cover /\ env.save_ok /\ ~cover_raises THEN 1 ELSE 0
      logo_filename == IF ~new_logo THEN agency.logo_filename
                       ELSE IF env.save_ok THEN seq.file ELSE NULL
      cover_filename == IF ~new_cover THEN agency.cover_filename
                        ELSE IF env.save_ok THEN seq.file + n_logo ELSE NULL
      valid == SelectSeq(gallery, valid_upload)
      k == IF env.save_ok /\ ~cover_raises THEN Len(valid) ELSE 0
      first_file == seq.file + n_logo + n_cover
      removed == {old_logo : x \in {1} \cap {IF rm_logo THEN 1 ELSE 0}} \cup
                 {old_cover : x \in {1} \cap {IF rm_cover /\ ~cover_raises THEN 1 ELSE 0}}
      saved == {path("logos", seq.file) : x \in 1..n_logo} \cup
               {path("covers", seq.file + n_logo) : x \in 1..n_cover} \cup
               {path("agencies", first_file + j - 1) : j \in 1..k}
      new_ids == [j \in 1..k |-> seq.image + j - 1]
      row(j) == [agency_id |-> agency_id,
                 image_filename |-> first_file + j - 1,
                 is_primary |-> edit_is_primary(images, agency_id, j),
                 sort_order |-> edit_sort_order(images, agency_id, j)]
      inserted == [i \in DOMAIN images \cup {new_ids[j] : j \in 1..k} |->
                     IF i \in DOMAIN images THEN images[i]
                     ELSE row(i - seq.image + 1)]
      updated == [agency EXCEPT !.name = name, !.city = city,
                                !.website = website,
                                !.plan_id = form.plan_id,
                                !.is_active = form.is_active,
                                !.logo_filename = logo_filename,
                                !.cover_filename = cover_filename]
  IN
  IF agency_id \notin DOMAIN agencies
  THEN /\ last' = Resp("edit_agency", agency_id, "not_found", <<>>)
       /\ UNCHANGED <<plans, agencies, images, items, settings, files, seq, inflight>>
  ELSE
  /\ seq.image + k - 1 <= MaxImageId
  /\ seq.file + n_logo + n_cover + k - 1 <= MaxFileId
  /\ IF ~all_present(name, city, strip(form.website))
     THEN \* the form is shown again; the session is discarded uncommitted
          /\ last' = Resp("edit_agency", agency_id, "invalid", <<>>)
          /\ UNCHANGED <<agencies, images, files, seq>>
     ELSE IF logo_raises
     THEN \* os.remove raises outside any try: nothing was done yet
          /\ last' = Resp("edit_agency", agency_id, "error", <<>>)
          /\ UNCHANGED <<agencies, images, files, seq>>
     ELSE /\ files' = (files \ removed) \cup saved
          /\ IF ~cover_raises /\ commit_succeeds(env, plans, form.plan_id)
             THEN /\ agencies' = [agencies EXCEPT ![agency_id] = updated]
                  /\ images' = inserted
                  /\ seq' = [seq EXCEPT !.file = @ + n_logo + n_cover + k,
                                        !.image = @ + k]
                  /\ last' = Resp("edit_agency", agency_id, "ok", new_ids)
             ELSE /\ UNCHANGED <<agencies, images>>
                  /\ seq' = [seq EXCEPT !.file = @ + n_logo + n_cover + k]
                  /\ last' = Resp("edit_agency", agency_id, "error", <<>>)
  /\ UNCHANGED <<plans, items, settings, inflight>>

delete_agency(agency_id, env) ==
  /\ IF agency_id \notin DOMAIN agencies
     THEN /\ last' = Resp("delete_agency", agency_id, "not_found", <<>>)
          /\ UNCHANGED <<agencies, images, files>>
     ELSE LET agency == agencies[agency_id]
              logo_path == path("logos", agency.logo_filename)
              cover_path == path("covers", agency.cover_filename)
              rm_logo == agency.logo_filename # NULL /\ logo_path \in files
              rm_cover == agency.cover_filename # NULL /\ cover_path \in files
              removed == {logo_path : x \in {1} \cap {IF rm_logo THEN 1 ELSE 0}} \cup
                         {cover_path : x \in {1} \cap {IF rm_cover THEN 1 ELSE 0}}
          IN IF (rm_logo \/ rm_cover) /\ ~env.rm_ok
             THEN \* the first os.remove raises: rollback, nothing was removed
                  /\ last' = Resp("delete_agency", agency_id, "error", <<>>)
                  /\ UNCHANGED <<agencies, images, files>>
             ELSE /\ files' = files \ removed
                  /\ IF env.commit_ok
                     THEN \* cascade='all, delete-orphan' deletes the image rows
                          /\ agencies' = Drop(agencies, {agency_id})
                          /\ images' = Drop(images, images_of(images, agency_id))
                          /\ last' = Resp("delete_agency", agency_id, "ok", <<>>)
                     ELSE /\ UNCHANGED <<agencies, images>>
                          /\ last' = Resp("delete_agency", agency_id, "error", <<>>)
  /\ UNCHANGED <<plans, items, settings, seq, inflight>>

reorder_agencies(agency_ids, env) ==
  /\ IF env.commit_ok
     THEN /\ agencies' = reorder_loop(agencies, agency_ids, 0, DOMAIN agencies)
          /\ last' = Resp("reorder_agencies", NULL, "ok", <<>>)
     ELSE /\ agencies' = agencies
          /\ last' = Resp("reorder_agencies", NULL, "error", <<>>)
  /\ UNCHANGED <<plans, images, items, settings, files, seq, inflight>>

\* ---------------------------------------------------------------- carousel
\* CarouselSettings(): the column defaults of models.py
default_settings ==
  [is_active |-> TRUE, interval_seconds |-> 5, video_filename |-> NULL,
   show_video |-> FALSE]

\* a carousel() that creates a row on every call
carousel_always_create(env) ==
  /\ settings' = Put(settings, seq.settings, default_settings)
  /\ seq' = [seq EXCEPT !.settings = @ + 1]
  /\ last' = Resp("carousel", seq.settings, "ok", <<>>)
  /\ UNCHANGED <<plans, agencies, images, items, files, inflight>>

\* carousel(): "Get or create carousel settings"; CarouselSettings.query
\* .first() has no ORDER BY: any row may come first
carousel(env) ==
  /\ IF DOMAIN settings # {}
     THEN \E s \in DOMAIN settings :
            /\ last' = Resp("carousel", s, "ok", <<>>)
            /\ UNCHANGED <<settings, seq>>
     ELSE IF env.commit_ok
     THEN /\ settings' = Put(settings, seq.settings, default_settings)
          /\ seq' = [seq EXCEPT !.settings = @ + 1]
          /\ last' = Resp("carousel", seq.settings, "ok", <<>>)
     ELSE /\ last' = Resp("carousel", NULL, "error", <<>>)
          /\ UNCHANGED <<settings, seq>>
  /\ UNCHANGED <<plans, agencies, images, items, files, inflight>>

ALLOWED_VIDEO_EXTENSIONS ==
  { <<"m","p","4">>, <<"w","e","b","m">>, <<"o","g","g">> }

\* the inline extension test of update_carousel_settings
allowed_video(filename) ==
  /\ filename # <<>>
  /\ \E i \in 1..Len(filename) : filename[i] = "."
  /\ lower(rsplit_ext(filename)) \in ALLOWED_VIDEO_EXTENSIONS

\* int(request.form.get('interval_seconds', 5)); "text" makes int() raise
interval_of(field) == IF field.kind = "missing" THEN 5 ELSE field.value

update_carousel_settings(form, video, env) ==
  LET fresh == DOMAIN settings = {}
      new_video == allowed_video(video)
  IN
  /\ new_video => seq.file <= MaxFileId
  /\ \E s \in IF fresh THEN {seq.settings} ELSE DOMAIN settings :
       LET row == IF fresh THEN default_settings ELSE settings[s]
           old_path == path("carousel", row.video_filename)
           rm_old == new_video /\ row.video_filename # NULL /\ old_path \in files
           n_video == IF new_video /\ env.save_ok THEN 1 ELSE 0
           video_filename == IF ~new_video THEN row.video_filename
                             ELSE IF env.save_ok THEN seq.file ELSE NULL
           updated == [is_active |-> form.is_active,
                       interval_seconds |-> interval_of(form.interval_seconds),
                       video_filename |-> video_filename,
                       show_video |-> form.show_video]
       IN IF form.interval_seconds.kind = "text" \/ (rm_old /\ ~env.rm_ok)
          THEN \* int() or os.remove raises outside any try: nothing is kept
               /\ last' = Resp("update_carousel_settings", NULL, "error", <<>>)
               /\ UNCHANGED <<settings, files, seq>>
          ELSE /\ files' = (files \ {old_path : x \in {1} \cap {IF rm_old THEN 1 ELSE 0}})
                             \cup {path("carousel", seq.file) : x \in 1..n_video}
               /\ IF env.commit_ok
                  THEN /\ settings' = Put(settings, s, updated)
                       /\ seq' = [seq EXCEPT !.file = @ + n_video,
                                    !.settings = IF fresh THEN @ + 1 ELSE @]
                       /\ last' = Resp("update_carousel_settings", s, "ok", <<>>)
                  ELSE /\ settings' = settings
                       /\ seq' = [seq EXCEPT !.file = @ + n_video]
                       /\ last' = Resp("update_carousel_settings", NULL, "error", <<>>)
  /\ UNCHANGED <<plans, agencies, images, items, inflight>>

\* a sort order taken as the agencies take theirs
item_sort_order_max(its) == next_sort_order(its)

\* item.sort_order = CarouselItem.query.count()
item_sort_order(its) == Cardinality(DOMAIN its)

add_carousel_item(image, env) ==
  /\ seq.item <= MaxItemId
  /\ seq.file <= MaxFileId
  /\ IF ~valid_upload(image)
     THEN /\ last' = Resp("add_carousel_item", NULL, "invalid", <<>>)
          /\ UNCHANGED <<items, files, seq>>
     ELSE IF ~env.save_ok
     THEN /\ last' = Resp("add_carousel_item", NULL, "error", <<>>)
          /\ UNCHANGED <<items, files, seq>>
     ELSE /\ files' = files \cup {path("carousel", seq.file)}
          /\ IF env.commit_ok
             THEN /\ items' = Put(items, seq.item,
                                  [image_filename |-> seq.file, is_active |-> TRUE,
                                   sort_order |-> item_sort_order(items)])
                  /\ seq' = [seq EXCEPT !.item = @ + 1, !.file = @ + 1]
                  /\ last' = Resp("add_carousel_item", seq.item, "ok", <<>>)
             ELSE /\ items' = items
                  /\ seq' = [seq EXCEPT !.file = @ + 1]
                  /\ last' = Resp("add_carousel_item", NULL, "error", <<>>)
  /\ UNCHANGED <<plans, agencies, images, settings, inflight>>

delete_carousel_item(item_id, env) ==
  /\ IF item_id \notin DOMAIN items
     THEN /\ last' = Resp("delete_carousel_item", item_id, "not_found", <<>>)
          /\ UNCHANGED <<items, files>>
     ELSE LET image_path == path("carousel", items[item_id].image_filename)
          IN IF image_path \in files /\ ~env.rm_ok
             THEN /\ last' = Resp("delete_carousel_item", item_id, "error", <<>>)
                  /\ UNCHANGED <<items, files>>
             ELSE /\ files' = files \ {image_path}
                  /\ IF env.commit_ok
                     THEN /\ items' = Drop(items, {item_id})
                          /\ last' = Resp("delete_carousel_item", item_id, "ok", <<>>)
                     ELSE /\ items' = items
                          /\ last' = Resp("delete_carousel_item", item_id, "error", <<>>)
  /\ UNCHANGED <<plans, agencies, images, settings, seq, inflight>>

toggle_carousel_item(item_id, env) ==
  /\ IF item_id \notin DOMAIN items
     THEN /\ last' = Resp("toggle_carousel_item", item_id, "not_found", <<>>)
          /\ items' = items
     ELSE IF env.commit_ok
     THEN /\ items' = [items EXCEPT ![item_id].is_active = ~@]
          /\ last' = Resp("toggle_carousel_item", item_id, "ok", <<>>)
     ELSE /\ items' = items
          /\ last' = Resp("toggle_carousel_item", item_id, "error", <<>>)
  /\ UNCHANGED <<plans, agencies, images, settings, files, seq, inflight>>

reorder_carousel(item_ids, env) ==
  /\ IF env.commit_ok
     THEN /\ items' = reorder_loop(items, item_ids, 0, DOMAIN items)
          /\ last' = Resp("reorder_carousel", NULL, "ok", <<>>)
     ELSE /\ items' = items
          /\ last' = Resp("reorder_carousel", NULL, "error", <<>>)
  /\ UNCHANGED <<plans, agencies, images, settings, files, seq, inflight>>

\* ------------------------------------------------------------------- plans
\* Plan.query.filter_by(name=name).first()
existing_plan(pls, name) == {p \in DOMAIN pls : pls[p].name = name}

\* Plan.query.filter(Plan.name == name, Plan.id != plan_id).first()
existing_other_plan(pls, name, plan_id) ==
  {p \in DOMAIN pls : pls[p].name = name /\ p # plan_id}

\* a name column without the unique constraint
unique_name_off(pls, name, plan_id) == TRUE

\* name = db.Column(db.String(50), unique=True, ...): the row plan_id may
\* carry the name only if no other row does
unique_name(pls, name, plan_id) ==
  \A p \in DOMAIN pls : p # plan_id => pls[p].name # name

\* request.form.get('price', type=float): None when absent or not a number
price_of(field) == IF field.kind = "num" THEN field.value ELSE NULL

price_is_none(field) == field.kind # "num"

\* the checks of add_plan before the row is built
add_plan_check(pls, form) ==
  IF strip(form.name) = <<>> \/ price_is_none(form.price) THEN "invalid"
  ELSE IF existing_plan(pls, strip(form.name)) # {} THEN "conflict"
  ELSE "pass"

\* db.session.add(plan); db.session.commit()
insert_plan(name, price, env) ==
  IF env.commit_ok /\ unique_name(plans, name, seq.plan)
  THEN /\ plans' = Put(plans, seq.plan,
                       [name |-> name, price |-> price, is_active |-> TRUE])
       /\ seq' = [seq EXCEPT !.plan = @ + 1]
       /\ last' = Resp("add_plan", seq.plan, "ok", <<>>)
  ELSE /\ last' = Resp("add_plan", NULL, "error", <<>>)
       /\ UNCHANGED <<plans, seq>>

add_plan(form, env) ==
  /\ seq.plan <= MaxPlanId
  /\ IF add_plan_check(plans, form) # "pass"
     THEN /\ last' = Resp("add_plan", NULL, add_plan_check(plans, form), <<>>)
          /\ UNCHANGED <<plans, seq>>
     ELSE insert_plan(strip(form.name), price_of(form.price), env)
  /\ UNCHANGED <<agencies, images, items, settings, files, inflight>>

\* add_plan up to its commit, another request running in between
add_plan_begin(r, form) ==
  /\ seq.plan <= MaxPlanId
  /\ inflight[r] = Idle
  /\ IF add_plan_check(plans, form) # "pass"
     THEN /\ last' = Resp("add_plan", NULL, add_plan_check(plans, form), <<>>)
          /\ inflight' = inflight
     ELSE /\ inflight' = [inflight EXCEPT ![r] =
                            [op |-> "add_plan", name |-> strip(form.name),
                             price |-> price_of(form.price)]]
          /\ last' = last
  /\ UNCHANGED <<plans, agencies, images, items, settings, files, seq>>

add_plan_end(r, env) ==
  /\ inflight[r].op = "add_plan"
  /\ insert_plan(inflight[r].name, inflight[r].price, env)
  /\ inflight' = [inflight EXCEPT ![r] = Idle]
  /\ UNCHANGED <<agencies, images, items, settings, files>>

\* the checks of edit_plan before the row is changed
edit_plan_check(pls, plan_id, form) ==
  IF strip(form.name) = <<>> \/ price_is_none(form.price) THEN "invalid"
  ELSE IF existing_other_plan(pls, strip(form.name), plan_id) # {} THEN "conflict"
  ELSE "pass"

\* plan.name = ...; db.session.commit(); a row deleted meanwhile makes the
\* UPDATE match nothing and the commit fail
update_plan(plan_id, name, price, is_active, env) ==
  IF env.commit_ok /\ plan_id \in DOMAIN plans /\ unique_name(plans, name, plan_id)
  THEN /\ plans' = [plans EXCEPT ![plan_id] =
                      [name |-> name, price |-> price, is_active |-> is_active]]
       /\ last' = Resp("edit_plan", plan_id, "ok", <<>>)
  ELSE /\ last' = Resp("edit_plan", plan_id, "error", <<>>)
       /\ plans' = plans

edit_plan(plan_id, form, env) ==
  /\ IF plan_id \notin DOMAIN plans
     THEN /\ last' = Resp("edit_plan", plan_id, "not_found", <<>>)
          /\ plans' = plans
     ELSE IF edit_plan_check(plans, plan_id, form) # "pass"
     THEN /\ last' = Resp("edit_plan", plan_id, edit_plan_check(plans, plan_id, form), <<>>)
          /\ plans' = plans
     ELSE update_plan(plan_id, strip(form.name), price_of(form.price),
                      form.is_active, env)
  /\ UNCHANGED <<agencies, images, items, settings, files, seq, inflight>>

\* edit_plan up to its commit, another request running in between
edit_plan_begin(r, plan_id, form) ==
  /\ inflight[r] = Idle
  /\ IF plan_id \notin DOMAIN plans
     THEN /\ last' = Resp("edit_plan", plan_id, "not_found", <<>>)
          /\ inflight' = inflight
     ELSE IF edit_plan_check(plans, plan_id, form) # "pass"
     THEN /\ last' = Resp("edit_plan", plan_id, edit_plan_check(plans, plan_id, form), <<>>)
          /\ inflight' = inflight
     ELSE /\ inflight' = [inflight EXCEPT ![r] =
                            [op |-> "edit_plan", id |-> plan_id,
                             name |-> strip(form.name),
                             price |-> price_of(form.price),
                             is_active |-> form.is_active]]
          /\ last' = last
  /\ UNCHANGED <<plans, agencies, images, items, settings, files, seq>>

edit_plan_end(r, env) ==
  /\ inflight[r].op = "edit_plan"
  /\ update_plan(inflight[r].id, inflight[r].name, inflight[r].price,
                 inflight[r].is_active, env)
  /\ inflight' = [inflight EXCEPT ![r] = Idle]
  /\ UNCHANGED <<agencies, images, items, settings, files, seq>>

\* a count that sees no agency
agencies_count_none(ags, plan_id) == 0

\* Agency.query.filter_by(plan_id=plan_id).count()
agencies_count(ags, plan_id) ==
  Cardinality({a \in DOMAIN ags : ags[a].plan_id = plan_id})

\* agencies = db.relationship('Agency', backref='plan'): deleting the plan
\* sets plan_id to NULL in the agency rows that refer to it
nullify_plan(ags, plan_id) ==
  [a \in DOMAIN ags |->
     IF ags[a].plan_id = plan_id THEN [ags[a] EXCEPT !.plan_id = NULL] ELSE ags[a]]

delete_plan(plan_id, env) ==
  /\ IF plan_id \notin DOMAIN plans
     THEN /\ last' = Resp("delete_plan", plan_id, "not_found", <<>>)
          /\ UNCHANGED <<plans, agencies>>
     ELSE IF agencies_count(agencies, plan_id) > 0
     THEN /\ last' = Resp("delete_plan", plan_id, "conflict", <<>>)
          /\ UNCHANGED <<plans, agencies>>
     ELSE IF env.commit_ok
     THEN /\ plans' = Drop(plans, {plan_id})
          /\ agencies' = nullify_plan(agencies, plan_id)
          /\ last' = Resp("delete_plan", plan_id, "ok", <<>>)
     ELSE /\ last' = Resp("delete_plan", plan_id, "error", <<>>)
          /\ UNCHANGED <<plans, agencies>>
  /\ UNCHANGED <<images, items, settings, files, seq, inflight>>

\* ------------------------------------------------------------ input sets
PngFile == <<"a",".","p","n","g">>
ExeFile == <<"a",".","e","x","e">>
NoFile == <<>>

SeqsUpTo(S, n) == UNION {[1..m -> S] : m \in 0..n}

UploadBatches == SeqsUpTo({PngFile, ExeFile}, MaxBatch)

AgencyIds == 1..MaxAgencyId
ImageIds == 1..MaxImageId
ItemIds == 1..MaxItemId
PlanIds == 1..MaxPlanId

GoodForm(plan_id, is_active) ==
  [name |-> <<"a">>, city |-> <<"m">>, website |-> <<"a">>,
   plan_id |-> plan_id, is_active |-> is_active]

\* ------------------------------------------------- gallery specification
\* the state after initialize_application, delete_agency(4), delete_agency(3)
InitGallery ==
  /\ plans = default_plans
  /\ agencies = Drop(sample_agencies, {3, 4})
  /\ images = <<>>
  /\ items = <<>>
  /\ settings = <<>>
  /\ files = {}
  /\ seq = [plan |-> 3, agency |-> 5, image |-> 1, item |-> 1,
            settings |-> 1, file |-> 1]
  /\ last = Resp("delete_agency", 3, "ok", <<>>)
  /\ inflight = NoInflight

GalleryAgencies == 1..3

AddAgencyImages ==
  \E a \in GalleryAgencies, u \in UploadBatches, env \in {OkEnv} :
    add_agency_images(a, u, env)

DeleteAgencyImage ==
  \E i \in ImageIds, env \in {OkEnv} : delete_agency_image(i, env)

SetPrimaryAgencyImage ==
  \E i \in ImageIds, env \in {OkEnv} : set_primary_agency_image(i, env)

ReorderAgencyImages ==
  \E a \in GalleryAgencies, ids \in SeqsUpTo(ImageIds, MaxShortList), env \in {OkEnv} :
    reorder_agency_images(a, ids, env)

EditAgencyGallery ==
  \E a \in GalleryAgencies, u \in UploadBatches, env \in {OkEnv} :
    edit_agency(a, GoodForm(agencies[a].plan_id, TRUE), NoFile, NoFile, u, env)

DeleteAgency ==
  \E a \in GalleryAgencies, env \in {OkEnv} : delete_agency(a, env)

NextGallery ==
  \/ AddAgencyImages
  \/ DeleteAgencyImage
  \/ SetPrimaryAgencyImage
  \/ ReorderAgencyImages
  \/ EditAgencyGallery
  \/ DeleteAgency

SpecGallery == InitGallery /\ [][NextGallery]_vars

\* the gallery operations that write is_primary or add and remove rows
NextPrimary == AddAgencyImages \/ DeleteAgencyImage \/ SetPrimaryAgencyImage

SpecPrimary == InitGallery /\ [][NextPrimary]_vars

primaries(imgs, a) == {i \in images_of(imgs, a) : imgs[i].is_primary}

\* C1: in every reachable state each agency has at most one image with
\* is_primary = true
C1_AtMostOnePrimary ==
  \A a \in DOMAIN agencies : Cardinality(primaries(images, a)) <= 1

\* C2: after a successful set_primary_agency_image(img) the primary images of
\* img's agency are exactly {img}, and no row of another agency has changed
C2_SetPrimaryExactlyOne ==
  [][(last'.op = "set_primary_agency_image" /\ last'.result = "ok") =>
       LET img == last'.id
           a == images[img].agency_id
       IN /\ DOMAIN images' = DOMAIN images
          /\ primaries(images', a) = {img}
          /\ \A i \in DOMAIN images :
               images[i].agency_id # a => images'[i] = images[i]]_vars

\* a set_primary has just succeeded on an agency with several images while
\* another agency holds a primary image of its own
C2_Witness ==
  /\ last.op = "set_primary_agency_image" /\ last.result = "ok"
  /\ Cardinality(images_of(images, images[last.id].agency_id)) >= 2
  /\ \E i \in DOMAIN images :
       images[i].agency_id # images[last.id].agency_id /\ images[i].is_primary

\* ------------------------------------------------- reorder specification
Range(q) == {q[i] : i \in 1..Len(q)}

distinct(q) == \A i, j \in 1..Len(q) : i # j => q[i] # q[j]

\* the id lists a drag-and-drop page sends: no id twice
ReorderLists == {q \in SeqsUpTo(1..MaxReorderId, MaxListLen) : distinct(q)}

\* initialize_application, then delete_agency(4)
InitReorderAgencies ==
  /\ plans = default_plans
  /\ agencies = Drop(sample_agencies, {4})
  /\ images = <<>>
  /\ items = <<>>
  /\ settings = <<>>
  /\ files = {}
  /\ seq = [plan |-> 3, agency |-> 5, image |-> 1, item |-> 1,
            settings |-> 1, file |-> 1]
  /\ last = Resp("delete_agency", 4, "ok", <<>>)
  /\ inflight = NoInflight

\* initialize_application, every sample agency deleted, then three
\* add_carousel_item
InitReorderItems ==
  /\ plans = default_plans
  /\ agencies = <<>>
  /\ images = <<>>
  /\ items = [i \in 1..3 |-> [image_filename |-> i, is_active |-> TRUE,
                              sort_order |-> i - 1]]
  /\ settings = <<>>
  /\ files = {path("carousel", i) : i \in 1..3}
  /\ seq = [plan |-> 3, agency |-> 5, image |-> 1, item |-> 4,
            settings |-> 1, file |-> 4]
  /\ last = Resp("add_carousel_item", 3, "ok", <<>>)
  /\ inflight = NoInflight

\* initialize_application, agencies 2, 3 and 4 deleted, then three
\* add_agency_images of one file each to agency 1
InitReorderImages ==
  /\ plans = default_plans
  /\ agencies = Drop(sample_agencies, {2, 3, 4})
  /\ images = [i \in 1..3 |-> [agency_id |-> 1, image_filename |-> i,
                               is_primary |-> (i = 1), sort_order |-> i - 1]]
  /\ items = <<>>
  /\ settings = <<>>
  /\ files = {path("agencies", i) : i \in 1..3}
  /\ seq = [plan |-> 3, agency |-> 5, image |-> 4, item |-> 1,
            settings |-> 1, file |-> 4]
  /\ last = Resp("add_agency_images", 1, "ok", <<3>>)
  /\ inflight = NoInflight

InitReorder == InitReorderAgencies \/ InitReorderItems \/ InitReorderImages

ReorderAgencies ==
  \E ids \in ReorderLists, env \in CommitEnv : reorder_agencies(ids, env)

ReorderCarousel ==
  \E ids \in ReorderLists, env \in CommitEnv : reorder_carousel(ids, env)

ReorderImages ==
  \E a \in 1..2, ids \in ReorderLists, env \in CommitEnv :
    reorder_agency_images(a, ids, env)

NextReorder == ReorderAgencies \/ ReorderCarousel \/ ReorderImages

SpecReorder == InitReorder /\ [][NextReorder]_vars

\* what a reorder with the list ids leaves of the rows old, of which the
\* rows in owned belong to the collection: the same rows; a listed row of the
\* collection has its place in the list; every other row is as it was
ReorderPost(old, new, ids, owned) ==
  /\ DOMAIN new = DOMAIN old
  /\ \A r \in DOMAIN old :
       IF r \in owned /\ r \in Range(ids)
       THEN /\ \E i \in 1..Len(ids) : ids[i] = r /\ new[r].sort_order = i - 1
            /\ new[r] = [old[r] EXCEPT !.sort_order = new[r].sort_order]
       ELSE new[r] = old[r]
  /\ \A i, j \in 1..Len(ids) :
       (i < j /\ ids[i] \in owned /\ ids[j] \in owned)
         => new[ids[i]].sort_order < new[ids[j]].sort_order

\* C3: for agencies, carousel items and the images of one agency, a
\* successful reorder gives each listed record its index in the list (so the
\* listed records read back in list order), leaves every omitted record as
\* it was, and ignores ids that match no record of the collection
C3_ReorderAssignsIndex ==
  [][\A ids \in ReorderLists :
       /\ (last'.op = "reorder_agencies" /\ last'.result = "ok"
             /\ agencies' = reorder_loop(agencies, ids, 0, DOMAIN agencies))
            => ReorderPost(agencies, agencies', ids, DOMAIN agencies)
       /\ (last'.op = "reorder_carousel" /\ last'.result = "ok"
             /\ items' = reorder_loop(items, ids, 0, DOMAIN items))
            => ReorderPost(items, items', ids, DOMAIN items)
       /\ (last'.op = "reorder_agency_images" /\ last'.result = "ok"
             /\ images' = reorder_loop(images, ids, 0, images_of(images, last'.id)))
            => ReorderPost(images, images', ids, images_of(images, last'.id))]_vars

\* a reorder has just put three rows in an order other than the one they
\* were created in
C3_Witness ==
  \/ /\ last.op = "reorder_agencies" /\ last.result = "ok"
     /\ {1, 2, 3} \subseteq DOMAIN agencies
     /\ agencies[3].sort_order = 0 /\ agencies[1].sort_order = 1
     /\ agencies[2].sort_order = 2
  \/ /\ last.op = "reorder_carousel" /\ last.result = "ok"
     /\ {1, 2, 3} \subseteq DOMAIN items
     /\ items[3].sort_order = 0 /\ items[1].sort_order = 1
     /\ items[2].sort_order = 2
  \/ /\ last.op = "reorder_agency_images" /\ last.result = "ok"
     /\ {1, 2, 3} \subseteq DOMAIN images
     /\ images[3].sort_order = 0 /\ images[1].sort_order = 1
     /\ images[2].sort_order = 2

\* ------------------------------------------- agency order specification
\* C6: after a successful delete_agency(id) the agency's logo and cover
\* files are gone, no image row of the agency remains, the file of each of
\* its image rows is gone, and the id matches no agency
C6_DeleteAgencyRemovesAll ==
  [][(last'.op = "delete_agency" /\ last'.result = "ok") =>
       LET id == last'.id
       IN /\ id \notin DOMAIN agencies'
          /\ path("logos", agencies[id].logo_filename) \notin files'
          /\ path("covers", agencies[id].cover_filename) \notin files'
          /\ images_of(images', id) = {}
          /\ \A i \in images_of(images, id) :
               path("agencies", images[i].image_filename) \notin files']_vars

AgencyForms ==
  {GoodForm(p, TRUE) : p \in {NULL, 1}}

AddAgency ==
  \E f \in AgencyForms, env \in CommitEnv : add_agency(f, NoFile, NoFile, env)

DeleteAgencyOrder ==
  \E a \in AgencyIds, env \in {OkEnv} : delete_agency(a, env)

ReorderAgenciesShort ==
  \E ids \in SeqsUpTo(AgencyIds, MaxShortList), env \in {OkEnv} :
    reorder_agencies(ids, env)

NextAgencyOrder == AddAgency \/ DeleteAgencyOrder \/ ReorderAgenciesShort

SpecAgencyOrder == InitGallery /\ [][NextAgencyOrder]_vars

\* C4: an agency created by add_agency gets the greatest sort_order of the
\* agencies existing at that moment plus one, which is greater than the
\* sort_order of every agency that exists then; no other row changes
C4_CreateSortOrder ==
  [][(last'.op = "add_agency" /\ last'.result = "ok") =>
       LET id == last'.id
       IN /\ id \notin DOMAIN agencies
          /\ DOMAIN agencies' = DOMAIN agencies \cup {id}
          /\ DOMAIN agencies # {} =>
               agencies'[id].sort_order =
                 Max({agencies[a].sort_order : a \in DOMAIN agencies}) + 1
          /\ \A a \in DOMAIN agencies :
               /\ agencies'[a] = agencies[a]
               /\ agencies'[id].sort_order > agencies[a].sort_order]_vars

\* an agency has just been created after a reorder and a delete: some
\* agency holds place 0 and the ids are no longer the places
C4_Witness ==
  /\ last.op = "add_agency" /\ last.result = "ok"
  /\ Cardinality(DOMAIN agencies) >= 2
  /\ Cardinality(DOMAIN agencies) < last.id - 2
  /\ \E a \in DOMAIN agencies : agencies[a].sort_order = 0

\* ------------------------------------------------ web site specification
Host == <<"e","x">>

WebsiteInputs ==
  { Host, HTTP \o Host, HTTPS \o Host, <<" ">> \o Host \o <<" ">>,
    <<" ">> \o HTTP \o Host, <<"h","t","t","p",":","/">> \o Host,
    <<"H","T","T","P",":","/","/">> \o Host, <<" ">>, <<>> }

WebsiteForms ==
  {[name |-> <<"a">>, city |-> <<"m">>, website |-> w, plan_id |-> NULL,
    is_active |-> TRUE] : w \in WebsiteInputs}

\* the state after initialize_application and delete_agency(4), (3), (2)
InitWebsite ==
  /\ plans = default_plans
  /\ agencies = Drop(sample_agencies, {2, 3, 4})
  /\ images = <<>>
  /\ items = <<>>
  /\ settings = <<>>
  /\ files = {}
  /\ seq = [plan |-> 3, agency |-> 5, image |-> 1, item |-> 1,
            settings |-> 1, file |-> 1]
  /\ last = Resp("delete_agency", 2, "ok", <<>>)
  /\ inflight = NoInflight

AddAgencyWebsite ==
  \E f \in WebsiteForms : add_agency(f, NoFile, NoFile, OkEnv)

EditAgencyWebsite ==
  \E a \in AgencyIds, f \in WebsiteForms :
    edit_agency(a, f, NoFile, NoFile, <<>>, OkEnv)

NextWebsite == AddAgencyWebsite \/ EditAgencyWebsite

SpecWebsite == InitWebsite /\ [][NextWebsite]_vars

has_scheme(w) == startswith(w, HTTP) \/ startswith(w, HTTPS)

\* what is stored for the web site typed as input (the form value is
\* stripped of surrounding blanks before anything else)
Stored(w, input) ==
  /\ has_scheme(w)
  /\ ~has_scheme(strip(input)) => w = HTTPS \o strip(input)
  /\ has_scheme(strip(input)) => w = strip(input)
  /\ ensure_protocol(w) = w

\* C8: after a successful add_agency or edit_agency the stored web site
\* starts with http:// or https://: a value without either prefix is stored
\* with https:// put in front, a value with one is stored as it is, and
\* normalising the stored value again changes nothing
C8_WebsiteHasScheme ==
  [][\A f \in WebsiteForms :
       /\ (last'.op = "add_agency" /\ last'.result = "ok"
             /\ add_agency(f, NoFile, NoFile, OkEnv))
            => Stored(agencies'[last'.id].website, f.website)
       /\ (last'.op = "edit_agency" /\ last'.result = "ok"
             /\ edit_agency(last'.id, f, NoFile, NoFile, <<>>, OkEnv))
            => Stored(agencies'[last'.id].website, f.website)]_vars

\* an agency typed without a scheme has been stored with https:// and
\* another, typed with http://, is stored as typed
C8_Witness ==
  /\ last.op \in {"add_agency", "edit_agency"} /\ last.result = "ok"
  /\ \E a, b \in DOMAIN agencies :
       /\ agencies[a].website = HTTPS \o Host
       /\ agencies[b].website = HTTP \o Host
       /\ last.id \in {a, b}

\* ----------------------------------------------------- plan specification
Gold == <<"G">>

Price(v) == [kind |-> "num", value |-> v]

NoPrice == [kind |-> "missing", value |-> NULL]

PlanForms ==
  {[name |-> n, price |-> pr, is_active |-> TRUE] :
     n \in {Gold, Basic, <<" ">> \o Gold, <<>>}, pr \in {Price(9), NoPrice}}

AddPlan ==
  \E f \in PlanForms, env \in CommitEnv : add_plan(f, env)

DeletePlan ==
  \E p \in PlanIds, env \in CommitEnv : delete_plan(p, env)

EditAgencyPlan ==
  \E a \in AgencyIds, p \in PlanIds \cup {NULL} :
    edit_agency(a, GoodForm(p, TRUE), NoFile, NoFile, <<>>, OkEnv)

DeleteAgencyPlan ==
  \E a \in AgencyIds : delete_agency(a, OkEnv)

NextPlans == AddPlan \/ DeletePlan \/ EditAgencyPlan \/ DeleteAgencyPlan

SpecPlans == InitGallery /\ [][NextPlans]_vars

\* C5: delete_plan on a plan that some agency refers to answers with a
\* conflict and leaves the plan, every agency and every agency's plan_id as
\* they were; on a plan that no agency refers to it removes that plan and
\* nothing else, unless the commit itself fails
C5_DeletePlanGuard ==
  [][(last'.op = "delete_plan" /\ last'.id \in DOMAIN plans) =>
       LET id == last'.id
       IN IF \E a \in DOMAIN agencies : agencies[a].plan_id = id
          THEN /\ last'.result = "conflict"
               /\ plans' = plans
               /\ agencies' = agencies
          ELSE /\ last'.result \in {"ok", "error"}
               /\ last'.result = "ok" => plans' = Drop(plans, {id})
               /\ last'.result = "error" => plans' = plans
               /\ agencies' = agencies]_vars

\* a delete has just been refused for a plan that an agency uses, after
\* another plan, used by no agency, was deleted
C5_Witness ==
  /\ last.op = "delete_plan" /\ last.result = "conflict"
  /\ last.id \in DOMAIN plans
  /\ \E a \in DOMAIN agencies : agencies[a].plan_id = last.id
  /\ \E p \in 1..2 : p \notin DOMAIN plans

\* ------------------------------------------- concurrent plan specification
PlanNameForms ==
  {[name |-> n, price |-> Price(9), is_active |-> TRUE] :
     n \in {Gold, Basic, <<" ">> \o Gold}}

Slots == 1..MaxInflight

AddPlanAtomic ==
  \E f \in PlanNameForms, env \in CommitEnv : add_plan(f, env)

EditPlanAtomic ==
  \E p \in PlanIds, f \in PlanNameForms, env \in CommitEnv : edit_plan(p, f, env)

AddPlanBegin ==
  \E r \in Slots, f \in PlanNameForms : add_plan_begin(r, f)

AddPlanEnd ==
  \E r \in Slots, env \in CommitEnv : add_plan_end(r, env)

EditPlanBegin ==
  \E r \in Slots, p \in PlanIds, f \in PlanNameForms : edit_plan_begin(r, p, f)

EditPlanEnd ==
  \E r \in Slots, env \in CommitEnv : edit_plan_end(r, env)

NextPlanRace ==
  \/ AddPlanAtomic
  \/ EditPlanAtomic
  \/ AddPlanBegin
  \/ AddPlanEnd
  \/ EditPlanBegin
  \/ EditPlanEnd

SpecPlanRace == InitSetup /\ [][NextPlanRace]_vars

distinct_names(pls) ==
  \A p, q \in DOMAIN pls : p # q => pls[p].name # pls[q].name

\* C7: no two plans ever carry the same name, whatever creates and updates
\* run and however two of them overlap; a create with a name that exists
\* fails and adds no row; an update to a name another plan holds fails and
\* changes nothing; an update that keeps the plan's own name succeeds
C7_PlanNamesUnique ==
  /\ [](distinct_names(plans))
  /\ [][\A f \in PlanNameForms :
          /\ (add_plan(f, OkEnv) /\ existing_plan(plans, strip(f.name)) # {})
               => /\ last'.result \notin {"ok"}
                  /\ plans' = plans
          /\ \A p \in DOMAIN plans :
               /\ (edit_plan(p, f, OkEnv)
                     /\ existing_other_plan(plans, strip(f.name), p) # {})
                    => /\ last'.result \notin {"ok"}
                       /\ plans' = plans
               /\ (edit_plan(p, f, OkEnv) /\ plans[p].name = strip(f.name))
                    => /\ last' = Resp("edit_plan", p, "ok", <<>>)
                       /\ plans'[p].name = plans[p].name]_vars

\* one of two overlapping creates of the same new name has been stored
\* and the other has just been turned down at its commit
C7_Witness ==
  /\ last.op = "add_plan" /\ last.result = "error"
  /\ existing_plan(plans, Gold) # {}
  /\ \A r \in Slots : inflight[r] = Idle
  /\ Cardinality(DOMAIN plans) = 3

\* -------------------------------------------- carousel item specification
AddCarouselItem ==
  \E image \in {PngFile, ExeFile}, env \in CommitEnv :
    add_carousel_item(image, env)

DeleteCarouselItem ==
  \E i \in ItemIds : delete_carousel_item(i, OkEnv)

ReorderCarouselItems ==
  \E ids \in {q \in SeqsUpTo(ItemIds, MaxListLen) : distinct(q)} :
    reorder_carousel(ids, OkEnv)

NextCarouselItems ==
  AddCarouselItem \/ DeleteCarouselItem \/ ReorderCarouselItems

SpecCarouselItems == InitSetup /\ [][NextCarouselItems]_vars

\* C9: an item created by add_carousel_item gets as sort_order the number
\* of items that exist just before, and no other item changes; with three
\* items at 0, 1, 2 in order of creation, reorder_carousel of the third, the
\* first and the second puts the third at 0, the first at 1, the second at 2
C9_ItemSortOrder ==
  [][/\ (last'.op = "add_carousel_item" /\ last'.result = "ok") =>
          LET id == last'.id
          IN /\ id \notin DOMAIN items
             /\ DOMAIN items' = DOMAIN items \cup {id}
             /\ items'[id].sort_order = Cardinality(DOMAIN items)
             /\ \A i \in DOMAIN items : items'[i] = items[i]
     /\ (/\ DOMAIN items = 1..3
         /\ \A i \in 1..3 : items[i].sort_order = i - 1
         /\ reorder_carousel(<<3, 1, 2>>, OkEnv))
          => /\ items'[3].sort_order = 0
             /\ items'[1].sort_order = 1
             /\ items'[2].sort_order = 2]_vars

\* the three items added to the empty carousel have just been reordered
\* as third, first, second
C9_Witness ==
  /\ last.op = "reorder_carousel" /\ last.result = "ok"
  /\ DOMAIN items = 1..3
  /\ items[3].sort_order = 0
  /\ items[1].sort_order = 1
  /\ items[2].sort_order = 2

\* ---------------------------------------- carousel settings specification
Mp4File == <<"a",".","m","p","4">>

IntervalFields ==
  { [kind |-> "missing", value |-> NULL], [kind |-> "int", value |-> 3],
    [kind |-> "int", value |-> 0], [kind |-> "text", value |-> NULL] }

SettingsForms ==
  {[is_active |-> a, interval_seconds |-> n, show_video |-> v] :
     a \in BOOLEAN, n \in IntervalFields, v \in BOOLEAN}

Carousel ==
  \E env \in CommitEnv : carousel(env)

UpdateCarouselSettings ==
  \E f \in SettingsForms, video \in {NoFile, Mp4File, ExeFile},
     env \in CommitEnv :
    update_carousel_settings(f, video, env)

NextSettings == Carousel \/ UpdateCarouselSettings

SpecSettings == InitSetup /\ [][NextSettings]_vars

\* C10: there is never more than one settings row and a row never goes
\* away; carousel() with no row creates exactly one, active, with an
\* interval of 5 seconds, no video and show_video off; carousel() with a row
\* returns that row and leaves the settings as they are
C10_SettingsGetOrCreate ==
  /\ [](Cardinality(DOMAIN settings) <= 1)
  /\ [][/\ DOMAIN settings \subseteq DOMAIN settings'
        /\ last'.op = "carousel" =>
             IF DOMAIN settings = {}
             THEN /\ last'.result \in {"ok", "error"}
                  /\ last'.result = "error" => settings' = settings
                  /\ last'.result = "ok" =>
                       /\ DOMAIN settings' = {last'.id}
                       /\ settings'[last'.id] =
                            [is_active |-> TRUE, interval_seconds |-> 5,
                             video_filename |-> NULL, show_video |-> FALSE]
             ELSE /\ last'.result = "ok"
                  /\ DOMAIN settings = {last'.id}
                  /\ settings' = settings]_vars

\* carousel() has just returned the one row, after an update gave it an
\* interval of 3 seconds and a video
C10_Witness ==
  /\ last.op = "carousel" /\ last.result = "ok"
  /\ DOMAIN settings = {last.id}
  /\ settings[last.id].interval_seconds = 3
  /\ settings[last.id].video_filename # NULL

\* ------------------------------------ concurrent settings specification
\* carousel() up to its insert: settings = CarouselSettings.query.first()
carousel_begin(r) ==
  /\ inflight[r] = Idle
  /\ IF DOMAIN settings # {}
     THEN \E s \in DOMAIN settings :
            /\ last' = Resp("carousel", s, "ok", <<>>)
            /\ inflight' = inflight
     ELSE /\ inflight' = [inflight EXCEPT ![r] = [op |-> "carousel"]]
          /\ last' = last
  /\ UNCHANGED <<plans, agencies, images, items, settings, files, seq>>

\* db.session.add(settings); db.session.commit() of the request that read
\* no row; the table has a primary key and no other constraint
carousel_end(r, env) ==
  /\ inflight[r].op = "carousel"
  /\ inflight' = [inflight EXCEPT ![r] = Idle]
  /\ IF env.commit_ok
     THEN /\ settings' = Put(settings, seq.settings, default_settings)
          /\ seq' = [seq EXCEPT !.settings = @ + 1]
          /\ last' = Resp("carousel", seq.settings, "ok", <<>>)
     ELSE /\ last' = Resp("carousel", NULL, "error", <<>>)
          /\ UNCHANGED <<settings, seq>>
  /\ UNCHANGED <<plans, agencies, images, items, files>>

CarouselBegin ==
  \E r \in Slots : carousel_begin(r)

CarouselEnd ==
  \E r \in Slots, env \in CommitEnv : carousel_end(r, env)

UpdateInterval ==
  \E n \in IntervalFields, a \in BOOLEAN :
    update_carousel_settings(
      [is_active |-> a, interval_seconds |-> n, show_video |-> FALSE],
      NoFile, OkEnv)

NextSettingsRace ==
  \/ Carousel
  \/ CarouselBegin
  \/ CarouselEnd
  \/ UpdateInterval

SpecSettingsRace == InitSetup /\ [][NextSettingsRace]_vars

\* C11: at most one settings row exists in every reachable state, also
\* when two requests make the first access at the same time
C11_AtMostOneSettings == Cardinality(DOMAIN settings) <= 1

\* ------------------------------------------- public listing specification
\* the characters of the plan names, in code point order
CodeOrder == <<" ","B","G","P","Z","a","c","e","i","m","r","s","u">>

ord(c) == CHOOSE i \in 1..Len(CodeOrder) : CodeOrder[i] = c

\* a < b for two strings
str_less(a, b) ==
  \E k \in 1..(Len(a) + 1) :
    /\ k <= Len(b)
    /\ \A i \in 1..(k - 1) : a[i] = b[i]
    /\ k <= Len(a) => ord(a[k]) < ord(b[k])

\* Agency.query.join(Plan).filter(Agency.is_active == True): the rows that
\* have a plan row and are active
index_rows(ags, pls) ==
  {a \in DOMAIN ags : ags[a].plan_id \in DOMAIN pls /\ ags[a].is_active}

\* an order by the plan name alone, ascending
index_before_asc(ags, pls, x, y) ==
  str_less(pls[ags[x].plan_id].name, pls[ags[y].plan_id].name)

\* order_by(Plan.name.desc(), Agency.sort_order.asc()): x must come before y
index_before(ags, pls, x, y) ==
  \/ str_less(pls[ags[y].plan_id].name, pls[ags[x].plan_id].name)
  \/ /\ pls[ags[y].plan_id].name = pls[ags[x].plan_id].name
     /\ ags[x].sort_order < ags[y].sort_order

\* .all(): the rows in an order the ORDER BY allows
index_agencies(ags, pls) ==
  LET rows == index_rows(ags, pls)
  IN {q \in [1..Cardinality(rows) -> rows] :
        /\ distinct(q)
        /\ \A i, j \in 1..Len(q) :
             index_before(ags, pls, q[i], q[j]) => i < j}

index ==
  /\ \E q \in index_agencies(agencies, plans) :
       last' = Resp("index", NULL, "ok", q)
  /\ UNCHANGED <<plans, agencies, images, items, settings, files, seq, inflight>>

ZName == <<"Z">>

Index == index

EditAgencyPublic ==
  \E a \in GalleryAgencies, p \in {NULL, 1, 2}, act \in BOOLEAN :
    edit_agency(a, GoodForm(p, act), NoFile, NoFile, <<>>, OkEnv)

ReorderAgenciesPublic ==
  \E ids \in SeqsUpTo(GalleryAgencies, MaxShortList) :
    reorder_agencies(ids, OkEnv)

RenamePlan ==
  \E n \in {Basic, ZName} :
    edit_plan(1, [name |-> n, price |-> Price(9), is_active |-> TRUE], OkEnv)

NextPublic == Index \/ EditAgencyPublic \/ ReorderAgenciesPublic \/ RenamePlan

SpecPublic == InitReorderAgencies /\ [][NextPublic]_vars

\* C12: the public list holds only active agencies, no agency twice; an
\* agency whose plan name is greater comes before one whose plan name is
\* smaller and, within one plan, a smaller sort_order never comes after a
\* greater one; the list is that of the agencies and plans as they are now
C12_PublicListOrder ==
  last.op = "index" =>
    LET q == last.ids
        name(i) == plans[agencies[q[i]].plan_id].name
    IN /\ \A i \in 1..Len(q) : q[i] \in DOMAIN agencies /\ agencies[q[i]].is_active
       /\ \A i, j \in 1..Len(q) :
            i < j =>
              /\ q[i] # q[j]
              /\ ~str_less(name(i), name(j))
              /\ agencies[q[i]].plan_id = agencies[q[j]].plan_id
                   => agencies[q[i]].sort_order <= agencies[q[j]].sort_order

\* the list has just been read with the renamed plan first: agency 2 of
\* plan Z before agencies 3 and 1 of plan Premium, 3 reordered to place 0
C12_Witness ==
  /\ last.op = "index"
  /\ last.ids = <<2, 3, 1>>
  /\ plans[1].name = ZName
  /\ agencies[3].sort_order < agencies[1].sort_order

\* ---------------------------------------------- plan price specification
PriceForms ==
  {[name |-> n, price |-> pr, is_active |-> a] :
     n \in {Gold, <<>>}, pr \in {Price(9), Price(0), Price(-1), NoPrice},
     a \in BOOLEAN}

AddPlanPrice ==
  \E f \in PriceForms, env \in CommitEnv : add_plan(f, env)

EditPlanPrice ==
  \E p \in PlanIds, f \in PriceForms, env \in CommitEnv : edit_plan(p, f, env)

NextPrices == AddPlanPrice \/ EditPlanPrice

SpecPrices == InitSetup /\ [][NextPrices]_vars

\* C13: add_plan and edit_plan turn down a form without a name, without a
\* price or with a negative price and write nothing, so that every stored
\* plan has a price of 0 or more
C13_PriceNonNegative ==
  /\ [](\A p \in DOMAIN plans : plans[p].price >= 0)
  /\ [][\A f \in PriceForms :
          (strip(f.name) = <<>> \/ f.price.kind # "num" \/ f.price.value < 0) =>
            /\ add_plan(f, OkEnv) => (last'.result = "invalid" /\ plans' = plans)
            /\ \A p \in DOMAIN plans :
                 edit_plan(p, f, OkEnv) =>
                   (last'.result = "invalid" /\ plans' = plans)]_vars

\* C14: the interval of the stored carousel settings is a positive whole
\* number in every reachable state
C14_IntervalPositive ==
  \A s \in DOMAIN settings : settings[s].interval_seconds > 0

\* C15 as stated: an agency created while no agency exists gets sort_order 0
C15_FirstSortOrderZero ==
  [][(last'.op = "add_agency" /\ last'.result = "ok" /\ DOMAIN agencies = {})
       => agencies'[last'.id].sort_order = 0]_vars

\* C15: an agency created while no agency exists gets sort_order 1, the
\* greatest existing sort_order being taken as 0 when there is none
C15_FirstSortOrderOne ==
  [][(last'.op = "add_agency" /\ last'.result = "ok" /\ DOMAIN agencies = {})
       => /\ DOMAIN agencies' = {last'.id}
          /\ agencies'[last'.id].sort_order = 1]_vars

\* the only agency is one created after every other agency was deleted
C15_Witness ==
  /\ last.op = "add_agency" /\ last.result = "ok"
  /\ DOMAIN agencies = {last.id}
  /\ agencies[last.id].sort_order = 1

\* C16: add_agency_images of one or more valid images to an agency without
\* images marks the first new image primary and no other; to an agency
\* that has an image it marks no new image primary
C16_FirstOfBatchPrimary ==
  [][(last'.op = "add_agency_images" /\ last'.result = "ok") =>
       LET new == last'.ids
       IN IF images_of(images, last'.id) = {}
          THEN \A j \in 1..Len(new) : images'[new[j]].is_primary <=> (j = 1)
          ELSE \A j \in 1..Len(new) : ~images'[new[j]].is_primary]_vars

\* C17: when edit_agency attaches gallery images to an agency without
\* images, the first attached image is stored as the primary one
C17_EditFirstImagePrimary ==
  [][(/\ last'.op = "edit_agency" /\ last'.result = "ok"
      /\ Len(last'.ids) >= 1
      /\ images_of(images, last'.id) = {})
       => images'[last'.ids[1]].is_primary]_vars

\* C18: the j-th image that add_agency_images or edit_agency creates for an
\* agency with n images gets sort_order n + j - 1, the number of images the
\* agency has when that row is created
C18_BatchSortOrders ==
  [][(last'.op \in {"add_agency_images", "edit_agency"} /\ last'.result = "ok") =>
       \A j \in 1..Len(last'.ids) :
         images'[last'.ids[j]].sort_order =
           Cardinality(images_of(images, last'.id)) + j - 1]_vars

\* -------------------------------------------- blob deletion specification
\* os.remove raises; saving and committing work
RmFailEnv == [OkEnv EXCEPT !.rm_ok = FALSE]

BlobAgencies == 1..2

AddItemBlob == add_carousel_item(PngFile, OkEnv)

AddImageBlob ==
  \E a \in BlobAgencies : add_agency_images(a, <<PngFile>>, OkEnv)

SetLogoCover ==
  \E a \in BlobAgencies, logo \in {PngFile, NoFile}, cover \in {PngFile, NoFile} :
    edit_agency(a, GoodForm(1, TRUE), logo, cover, <<>>, OkEnv)

DeleteAgencyBlob ==
  \E a \in BlobAgencies, env \in {OkEnv, RmFailEnv} : delete_agency(a, env)

DeleteItemBlob ==
  \E i \in ItemIds, env \in {OkEnv, RmFailEnv} : delete_carousel_item(i, env)

DeleteImageBlob ==
  \E i \in ImageIds, env \in {OkEnv, RmFailEnv} : delete_agency_image(i, env)

NextBlobs ==
  \/ AddItemBlob
  \/ AddImageBlob
  \/ SetLogoCover
  \/ DeleteAgencyBlob
  \/ DeleteItemBlob
  \/ DeleteImageBlob

SpecBlobs == InitGallery /\ [][NextBlobs]_vars

\* C19: when removing the file fails during delete_agency,
\* delete_carousel_item or delete_agency_image, the failure is swallowed and
\* the row is deleted all the same
C19_BlobFailureSwallowed ==
  [][/\ \A a \in DOMAIN agencies :
          delete_agency(a, RmFailEnv) => a \notin DOMAIN agencies'
     /\ \A i \in DOMAIN items :
          delete_carousel_item(i, RmFailEnv) => i \notin DOMAIN items'
     /\ \A i \in DOMAIN images :
          delete_agency_image(i, RmFailEnv) => i \notin DOMAIN images']_vars

\* ------------------------------------------ blob replacement specification
\* save_uploaded_file returns None; removing and committing work
SaveFailEnv == [OkEnv EXCEPT !.save_ok = FALSE]

PlainSettings ==
  [is_active |-> TRUE, interval_seconds |-> [kind |-> "int", value |-> 3],
   show_video |-> TRUE]

ReplaceLogoCover ==
  \E a \in BlobAgencies, logo \in {PngFile, NoFile}, cover \in {PngFile, NoFile},
     env \in {OkEnv, SaveFailEnv} :
    edit_agency(a, GoodForm(1, TRUE), logo, cover, <<>>, env)

ReplaceVideo ==
  \E video \in {Mp4File, NoFile}, env \in {OkEnv, SaveFailEnv} :
    update_carousel_settings(PlainSettings, video, env)

NextReplace == ReplaceLogoCover \/ ReplaceVideo

SpecReplace == InitGallery /\ [][NextReplace]_vars

\* C20: when edit_agency replaces a logo or a cover, or
\* update_carousel_settings replaces the video, and saving the new file
\* fails, the old file is still there and the row still names it
C20_OldBlobKeptOnFailedSave ==
  [][/\ \A a \in DOMAIN agencies, cover \in {PngFile, NoFile} :
          (/\ edit_agency(a, GoodForm(1, TRUE), PngFile, cover, <<>>, SaveFailEnv)
           /\ path("logos", agencies[a].logo_filename) \in files)
            => /\ path("logos", agencies[a].logo_filename) \in files'
               /\ agencies'[a].logo_filename = agencies[a].logo_filename
     /\ \A a \in DOMAIN agencies, logo \in {PngFile, NoFile} :
          (/\ edit_agency(a, GoodForm(1, TRUE), logo, PngFile, <<>>, SaveFailEnv)
           /\ path("covers", agencies[a].cover_filename) \in files)
            => /\ path("covers", agencies[a].cover_filename) \in files'
               /\ agencies'[a].cover_filename = agencies[a].cover_filename
     /\ \A s \in DOMAIN settings :
          (/\ update_carousel_settings(PlainSettings, Mp4File, SaveFailEnv)
           /\ path("carousel", settings[s].video_filename) \in files)
            => /\ path("carousel", settings[s].video_filename) \in files'
               /\ settings'[s].video_filename = settings[s].video_filename]_vars

\* --------------------------------------------- failed commit specification
FailAgencies == 1..1

AddItemCommit ==
  \E env \in CommitEnv : add_carousel_item(PngFile, env)

AddImageCommit ==
  \E a \in FailAgencies, env \in CommitEnv :
    add_agency_images(a, <<PngFile>>, env)

EditLogoCommit ==
  \E a \in FailAgencies, logo \in {PngFile, NoFile}, env \in CommitEnv :
    edit_agency(a, GoodForm(1, TRUE), logo, NoFile, <<>>, env)

DeleteItemCommit ==
  \E i \in ItemIds, env \in CommitEnv : delete_carousel_item(i, env)

DeleteImageCommit ==
  \E i \in ImageIds, env \in CommitEnv : delete_agency_image(i, env)

NextCommitFail ==
  \/ AddItemCommit
  \/ AddImageCommit
  \/ EditLogoCommit
  \/ DeleteItemCommit
  \/ DeleteImageCommit

SpecCommitFail == InitGallery /\ [][NextCommitFail]_vars

\* C21: in every reachable state, also after a commit that failed and was
\* rolled back, each file a stored row names (logo, cover, agency image,
\* carousel image, carousel video) exists in the upload folder
C21_NoDanglingReference ==
  /\ \A a \in DOMAIN agencies :
       /\ agencies[a].logo_filename # NULL =>
            path("logos", agencies[a].logo_filename) \in files
       /\ agencies[a].cover_filename # NULL =>
            path("covers", agencies[a].cover_filename) \in files
  /\ \A i \in DOMAIN images :
       path("agencies", images[i].image_filename) \in files
  /\ \A i \in DOMAIN items :
       path("carousel", items[i].image_filename) \in files
  /\ \A s \in DOMAIN settings :
       settings[s].video_filename # NULL =>
         path("carousel", settings[s].video_filename) \in files

\* --------------------------------------- agency validation specification
ValidationForms ==
  {[name |-> n, city |-> c, website |-> w, plan_id |-> 1, is_active |-> TRUE] :
     n \in {<<"a">>, <<>>, <<" ">>}, c \in {<<"m">>, <<>>}, w \in {<<"a">>, <<>>}}

EmptyForms ==
  {f \in ValidationForms :
     strip(f.name) = <<>> \/ strip(f.city) = <<>> \/ strip(f.website) = <<>>}

Uploads == {PngFile, NoFile}

Galleries == {<<>>, <<PngFile>>}

AddAgencyValidated ==
  \E f \in ValidationForms, logo \in Uploads :
    add_agency(f, logo, NoFile, OkEnv)

EditAgencyValidated ==
  \E a \in BlobAgencies, f \in ValidationForms, logo \in Uploads, g \in Galleries :
    edit_agency(a, f, logo, NoFile, g, OkEnv)

NextValidation == AddAgencyValidated \/ EditAgencyValidated

SpecValidation == InitWebsite /\ [][NextValidation]_vars

\* C22: add_agency and edit_agency with an empty name, city or web site
\* answer with the validation error and write nothing: no agency row is
\* created or changed, no image row is created, no file is saved or removed
C22_EmptyFieldWritesNothing ==
  [][/\ last'.op = "add_agency" =>
          \A f \in EmptyForms, logo \in Uploads :
            add_agency(f, logo, NoFile, OkEnv) =>
              /\ last' = Resp("add_agency", NULL, "invalid", <<>>)
              /\ agencies' = agencies /\ images' = images /\ files' = files
     /\ (last'.op = "edit_agency" /\ last'.id \in DOMAIN agencies) =>
          \A f \in EmptyForms, logo \in Uploads, g \in Galleries :
            edit_agency(last'.id, f, logo, NoFile, g, OkEnv) =>
              /\ last' = Resp("edit_agency", last'.id, "invalid", <<>>)
              /\ agencies' = agencies /\ images' = images /\ files' = files]_vars

\* an update without a city has just been turned down for an agency that
\* has a stored logo and an image
C22_Witness ==
  /\ last.op = "edit_agency" /\ last.result = "invalid"
  /\ last.id \in DOMAIN agencies
  /\ path("logos", agencies[last.id].logo_filename) \in files
  /\ images_of(images, last.id) # {}

\* ----------------------------------------- scoped reorder specification
\* the state after initialize_application, delete_agency(4), (3),
\* add_agency_images(1, two files) and add_agency_images(2, one file)
InitScoped ==
  /\ plans = default_plans
  /\ agencies = Drop(sample_agencies, {3, 4})
  /\ images = [i \in 1..3 |->
                 [agency_id |-> IF i = 3 THEN 2 ELSE 1, image_filename |-> i,
                  is_primary |-> TRUE,
                  sort_order |-> IF i = 2 THEN 1 ELSE 0]]
  /\ items = <<>>
  /\ settings = <<>>
  /\ files = {path("agencies", i) : i \in 1..3}
  /\ seq = [plan |-> 3, agency |-> 5, image |-> 4, item |-> 1,
            settings |-> 1, file |-> 4]
  /\ last = Resp("add_agency_images", 2, "ok", <<3>>)
  /\ inflight = NoInflight

\* id lists over the image ids, no id twice
ScopedLists == {q \in SeqsUpTo(ImageIds, MaxListLen) : distinct(q)}

ReorderScoped ==
  \E a \in 1..2, ids \in ScopedLists, env \in CommitEnv :
    reorder_agency_images(a, ids, env)

DeleteImageScoped ==
  \E i \in ImageIds : delete_agency_image(i, OkEnv)

NextScoped == ReorderScoped \/ DeleteImageScoped

SpecScoped == InitScoped /\ [][NextScoped]_vars

\* C23: a successful reorder_agency_images(agency_id, ids) gives each
\* listed image of that agency its index in the list and leaves every other
\* image, those of another agency included, exactly as it was
C23_ReorderOwnedOnly ==
  [][(last'.op = "reorder_agency_images" /\ last'.result = "ok") =>
       \A ids \in ScopedLists :
         reorder_agency_images(last'.id, ids, OkEnv) =>
           /\ DOMAIN images' = DOMAIN images
           /\ \A i \in DOMAIN images :
                IF images[i].agency_id = last'.id /\ i \in Range(ids)
                THEN \A k \in 1..Len(ids) :
                       ids[k] = i =>
                         images'[i] = [images[i] EXCEPT !.sort_order = k - 1]
                ELSE images'[i] = images[i]]_vars

\* agency 1 has just had its images reordered with the list of image 2,
\* image 3, which is not its own, and image 1; image 3 of agency 2 is where
\* it was
C23_Witness ==
  /\ last = Resp("reorder_agency_images", 1, "ok", <<>>)
  /\ DOMAIN images = 1..3
  /\ images[2].sort_order = 0
  /\ images[1].sort_order = 2
  /\ images[3].agency_id = 2 /\ images[3].sort_order = 0

\* C24: a successful delete_agency_image removes the row and the file of
\* that image and leaves every other image row as it was; when the deleted
\* image was the only primary one of an agency that has other images, the
\* agency is left without a primary image
C24_DeleteKeepsFlags ==
  [][(last'.op = "delete_agency_image" /\ last'.result = "ok") =>
       LET id == last'.id
           a == images[id].agency_id
       IN /\ id \in DOMAIN images
          /\ DOMAIN images' = DOMAIN images \ {id}
          /\ path("agencies", images[id].image_filename) \notin files'
          /\ \A i \in DOMAIN images' : images'[i] = images[i]
          /\ (primaries(images, a) = {id} /\ images_of(images, a) # {id})
               => (primaries(images', a) = {} /\ images_of(images', a) # {})]_vars

\* the primary image of an agency has just been deleted and the agency is
\* left with images, none of them primary
C24_Witness ==
  /\ last.op = "delete_agency_image" /\ last.result = "ok"
  /\ \E a \in DOMAIN agencies :
       images_of(images, a) # {} /\ primaries(images, a) = {}

\* ------------------------------------------ plan reference specification
\* the database may or may not enforce foreign keys; all else works
FkEnv == {e \in AllEnv : e.save_ok /\ e.rm_ok /\ e.commit_ok}

RefPlans == {NULL, 1, 3}

AddAgencyRef ==
  \E p \in RefPlans, env \in FkEnv :
    add_agency(GoodForm(p, TRUE), NoFile, NoFile, env)

EditAgencyRef ==
  \E a \in AgencyIds, p \in RefPlans, env \in FkEnv :
    edit_agency(a, GoodForm(p, TRUE), NoFile, NoFile, <<>>, env)

DeletePlanRef ==
  \E p \in PlanIds : delete_plan(p, OkEnv)

NextPlanRef == AddAgencyRef \/ EditAgencyRef \/ DeletePlanRef

SpecPlanRef == InitGallery /\ [][NextPlanRef]_vars

\* C25: in every reachable state the plan_id of each agency is null or the
\* id of an existing plan; add_agency and edit_agency with a plan id that
\* matches no plan succeed and store null
C25_PlanReferenceValid ==
  /\ [](\A a \in DOMAIN agencies :
          agencies[a].plan_id = NULL \/ agencies[a].plan_id \in DOMAIN plans)
  /\ [][\A p \in PlanIds \ DOMAIN plans, env \in FkEnv :
          /\ add_agency(GoodForm(p, TRUE), NoFile, NoFile, env) =>
               /\ last'.result = "ok"
               /\ agencies'[last'.id].plan_id = NULL
          /\ \A a \in DOMAIN agencies :
               edit_agency(a, GoodForm(p, TRUE), NoFile, NoFile, <<>>, env) =>
                 /\ last'.result = "ok"
                 /\ agencies'[a].plan_id = NULL]_vars

\* C26: the public list holds every active agency, also an active agency
\* whose plan_id is null
C26_PublicListComplete ==
  last.op = "index" =>
    \A a \in DOMAIN agencies :
      agencies[a].is_active => a \in Range(last.ids)

\* C27: an item created by add_carousel_item comes last: its sort_order is
\* greater than that of every other carousel item that exists, whatever
\* adds, deletes and reorders came before
C27_NewItemLast ==
  [][(last'.op = "add_carousel_item" /\ last'.result = "ok") =>
       \A i \in DOMAIN items :
         items'[last'.id].sort_order > items[i].sort_order]_vars

\* ----------------------------------------- concurrent primary specification
\* set_primary_agency_image up to its try: image = get_or_404(image_id)
set_primary_begin(r, image_id) ==
  /\ inflight[r] = Idle
  /\ IF image_id \notin DOMAIN images
     THEN /\ last' = Resp("set_primary_agency_image", image_id, "not_found", <<>>)
          /\ inflight' = inflight
     ELSE /\ inflight' = [inflight EXCEPT ![r] =
                            [op |-> "set_primary", id |-> image_id,
                             agency_id |-> images[image_id].agency_id,
                             written |-> FALSE, rows |-> {}]]
          /\ last' = last
  /\ UNCHANGED <<plans, agencies, images, items, settings, files, seq>>

\* an update that commits the cleared flags before the new flag is set
set_primary_update_commits(r) ==
  /\ inflight[r].op = "set_primary"
  /\ ~inflight[r].written
  /\ inflight' = [inflight EXCEPT ![r].written = TRUE,
                                  ![r].rows = {}]
  /\ images' = clear_primary(images, inflight[r].agency_id)
  /\ last' = last
  /\ UNCHANGED <<plans, agencies, items, settings, files, seq>>

\* the bulk update and image.is_primary = True, both inside the open
\* transaction: the rows the update matches are written, nothing is committed
set_primary_update(r) ==
  /\ inflight[r].op = "set_primary"
  /\ ~inflight[r].written
  /\ inflight' = [inflight EXCEPT ![r].written = TRUE,
                                  ![r].rows = images_of(images, inflight[r].agency_id)]
  /\ last' = last
  /\ UNCHANGED <<plans, agencies, images, items, settings, files, seq>>

\* db.session.commit(): the written rows become visible together; the
\* update of a target row deleted meanwhile matches nothing and raises
set_primary_commit(r, env) ==
  /\ inflight[r].op = "set_primary"
  /\ inflight[r].written
  /\ inflight' = [inflight EXCEPT ![r] = Idle]
  /\ IF env.commit_ok /\ inflight[r].id \in DOMAIN images
     THEN /\ images' = [i \in DOMAIN images |->
                          IF i = inflight[r].id
                          THEN [images[i] EXCEPT !.is_primary = TRUE]
                          ELSE IF i \in inflight[r].rows
                          THEN [images[i] EXCEPT !.is_primary = FALSE]
                          ELSE images[i]]
          /\ last' = Resp("set_primary_agency_image", inflight[r].id, "ok", <<>>)
     ELSE /\ images' = images
          /\ last' = Resp("set_primary_agency_image", inflight[r].id, "error", <<>>)
  /\ UNCHANGED <<plans, agencies, items, settings, files, seq>>

SetPrimaryBegin ==
  \E r \in Slots, i \in ImageIds : set_primary_begin(r, i)

SetPrimaryUpdate ==
  \E r \in Slots : set_primary_update(r)

SetPrimaryCommit ==
  \E r \in Slots, env \in CommitEnv : set_primary_commit(r, env)

DeleteImageRace ==
  \E i \in ImageIds : delete_agency_image(i, OkEnv)

NextPrimaryRace ==
  \/ SetPrimaryBegin
  \/ SetPrimaryUpdate
  \/ SetPrimaryCommit
  \/ DeleteImageRace

SpecPrimaryRace == InitReorderImages /\ [][NextPrimaryRace]_vars

\* C28: set_primary_agency_image shows its two writes together: the
\* committed images change only at its commit, and the commit of a
\* set_primary on an agency with exactly one primary image leaves that agency
\* with exactly one, the target, also when two set_primary requests on
\* different images of the agency overlap
C28_SetPrimaryAtomic ==
  [][/\ (last' = last /\ inflight' # inflight) => images' = images
     /\ (last'.op = "set_primary_agency_image" /\ last'.result = "ok") =>
          LET a == images[last'.id].agency_id
          IN Cardinality(primaries(images, a)) = 1
               => primaries(images', a) = {last'.id}]_vars

\* a set_primary of image 2 has just committed while another one, of image
\* 3 of the same agency, has made its writes and not yet committed
C28_Witness ==
  /\ last = Resp("set_primary_agency_image", 2, "ok", <<>>)
  /\ primaries(images, 1) = {2}
  /\ \E r \in Slots :
       /\ inflight[r].op = "set_primary"
       /\ inflight[r].id = 3
       /\ inflight[r].written
       /\ 1 \in inflight[r].rows

\* ----------------------------------------- concurrent reorder specification
\* reorder_carousel up to its loop: item_ids = request.get_json().get(...)
reorder_carousel_begin(r, item_ids) ==
  /\ inflight[r] = Idle
  /\ inflight' = [inflight EXCEPT ![r] =
                    [op |-> "reorder_carousel", ids |-> item_ids, index |-> 0,
                     dirty |-> <<>>]]
  /\ last' = last
  /\ UNCHANGED <<plans, agencies, images, items, settings, files, seq>>

\* one turn of the loop: item = CarouselItem.query.get(item_id) reads the
\* committed row; item.sort_order = index marks the row for an UPDATE only
\* when the value differs from the one read
reorder_carousel_step(r) ==
  /\ inflight[r].op = "reorder_carousel"
  /\ inflight[r].index < Len(inflight[r].ids)
  /\ LET place == inflight[r].index
         item_id == inflight[r].ids[place + 1]
         changed == /\ item_id \in DOMAIN items
                    /\ item_id \notin DOMAIN inflight[r].dirty
                    /\ items[item_id].sort_order # place
     IN inflight' = [inflight EXCEPT
                       ![r].index = place + 1,
                       ![r].dirty = IF changed THEN Put(@, item_id, place) ELSE @]
  /\ last' = last
  /\ UNCHANGED <<plans, agencies, images, items, settings, files, seq>>

\* db.session.commit(): the rows marked in the loop are updated; an item
\* deleted meanwhile makes its UPDATE match nothing and the commit fail
reorder_carousel_commit(r, env) ==
  /\ inflight[r].op = "reorder_carousel"
  /\ inflight[r].index = Len(inflight[r].ids)
  /\ inflight' = [inflight EXCEPT ![r] = Idle]
  /\ IF env.commit_ok /\ DOMAIN inflight[r].dirty \subseteq DOMAIN items
     THEN /\ items' = [i \in DOMAIN items |->
                         IF i \in DOMAIN inflight[r].dirty
                         THEN [items[i] EXCEPT !.sort_order = inflight[r].dirty[i]]
                         ELSE items[i]]
          /\ last' = Resp("reorder_carousel", NULL, "ok", <<>>)
     ELSE /\ items' = items
          /\ last' = Resp("reorder_carousel", NULL, "error", <<>>)
  /\ UNCHANGED <<plans, agencies, images, settings, files, seq>>

\* the lists that name each of the three items once
FullLists == {q \in [1..3 -> 1..3] : distinct(q)}

ReorderCarouselBegin ==
  \E r \in Slots, ids \in FullLists : reorder_carousel_begin(r, ids)

ReorderCarouselStep ==
  \E r \in Slots : reorder_carousel_step(r)

ReorderCarouselCommit ==
  \E r \in Slots, env \in CommitEnv : reorder_carousel_commit(r, env)

NextReorderRace ==
  \/ ReorderCarouselBegin
  \/ ReorderCarouselStep
  \/ ReorderCarouselCommit

SpecReorderRace == InitReorderItems /\ [][NextReorderRace]_vars

\* C29: when two reorder requests over the same ids overlap, after each
\* successful commit every item has the place that the committing request
\* gave it in its list, never a place left by the other request
C29_LastWriterWins ==
  [][\A r \in Slots :
       reorder_carousel_commit(r, OkEnv) =>
         \A k \in 1..Len(inflight[r].ids) :
           items'[inflight[r].ids[k]].sort_order = k - 1]_vars

\* ------------------------------------------- image ownership specification
\* add_agency_images up to its commit: agency = Agency.query.get_or_404,
\* then the loop saves each valid upload and builds its row from the rows
\* the request reads
add_agency_images_begin(r, agency_id, uploads, env) ==
  LET valid == SelectSeq(uploads, valid_upload)
      added_count == IF env.save_ok THEN Len(valid) ELSE 0
      saved == {path("agencies", seq.file + j - 1) : j \in 1..added_count}
      row(j) == [agency_id |-> agency_id,
                 image_filename |-> seq.file + j - 1,
                 is_primary |-> add_is_primary(images, agency_id, j),
                 sort_order |-> add_sort_order(images, agency_id, j)]
  IN
  /\ inflight[r] = Idle
  /\ seq.file + added_count - 1 <= MaxFileId
  /\ IF agency_id \notin DOMAIN agencies
     THEN /\ last' = Resp("add_agency_images", agency_id, "not_found", <<>>)
          /\ UNCHANGED <<files, seq, inflight>>
     ELSE IF added_count = 0
     THEN /\ last' = Resp("add_agency_images", agency_id, "invalid", <<>>)
          /\ UNCHANGED <<files, seq, inflight>>
     ELSE /\ files' = files \cup saved
          /\ seq' = [seq EXCEPT !.file = @ + added_count]
          /\ inflight' = [inflight EXCEPT ![r] =
                            [op |-> "add_agency_images", id |-> agency_id,
                             rows |-> [j \in 1..added_count |-> row(j)]]]
          /\ last' = last
  /\ UNCHANGED <<plans, agencies, images, items, settings>>

\* a commit that inserts the rows without the foreign key of agency_id
add_agency_images_commit_unchecked(r, env) ==
  LET rows == inflight[r].rows
      new_ids == [j \in 1..Len(rows) |-> seq.image + j - 1]
  IN
  /\ inflight[r].op = "add_agency_images"
  /\ seq.image + Len(rows) - 1 <= MaxImageId
  /\ inflight' = [inflight EXCEPT ![r] = Idle]
  /\ images' = [i \in DOMAIN images \cup {new_ids[j] : j \in 1..Len(rows)} |->
                  IF i \in DOMAIN images THEN images[i]
                  ELSE rows[i - seq.image + 1]]
  /\ seq' = [seq EXCEPT !.image = @ + Len(rows)]
  /\ last' = Resp("add_agency_images", inflight[r].id, "ok", new_ids)
  /\ UNCHANGED <<plans, agencies, items, settings, files>>

\* db.session.commit(): the rows are inserted; agency_id is declared
\* db.ForeignKey('agency.id'), so the insert of a row whose agency was
\* deleted meanwhile raises and the request rolls back
add_agency_images_commit(r, env) ==
  LET rows == inflight[r].rows
      new_ids == [j \in 1..Len(rows) |-> seq.image + j - 1]
  IN
  /\ inflight[r].op = "add_agency_images"
  /\ seq.image + Len(rows) - 1 <= MaxImageId
  /\ inflight' = [inflight EXCEPT ![r] = Idle]
  /\ IF env.commit_ok /\ (env.enforce_fk => inflight[r].id \in DOMAIN agencies)
     THEN /\ images' = [i \in DOMAIN images \cup {new_ids[j] : j \in 1..Len(rows)} |->
                          IF i \in DOMAIN images THEN images[i]
                          ELSE rows[i - seq.image + 1]]
          /\ seq' = [seq EXCEPT !.image = @ + Len(rows)]
          /\ last' = Resp("add_agency_images", inflight[r].id, "ok", new_ids)
     ELSE /\ UNCHANGED <<images, seq>>
          /\ last' = Resp("add_agency_images", inflight[r].id, "error", <<>>)
  /\ UNCHANGED <<plans, agencies, items, settings, files>>

\* the agencies of InitGallery
OwnerAgencies == 1..2

\* one add request at a time is open between its lookup and its commit
OwnerSlots == 1..1

AddImagesBegin ==
  \E r \in OwnerSlots, a \in OwnerAgencies, u \in Galleries \ {<<>>}, env \in {OkEnv} :
    add_agency_images_begin(r, a, u, env)

AddImagesCommit ==
  \E r \in OwnerSlots, env \in {OkEnv} : add_agency_images_commit(r, env)

EditAgencyOwned ==
  \E a \in OwnerAgencies, u \in Galleries \ {<<>>}, env \in {OkEnv} :
    edit_agency(a, GoodForm(agencies[a].plan_id, TRUE), NoFile, NoFile, u, env)

DeleteAgencyOwned ==
  \E a \in OwnerAgencies, env \in {OkEnv} : delete_agency(a, env)

DeleteImageOwned ==
  \E i \in ImageIds, env \in {OkEnv} : delete_agency_image(i, env)

SetPrimaryOwned ==
  \E i \in ImageIds, env \in {OkEnv} : set_primary_agency_image(i, env)

NextOwned ==
  \/ AddImagesBegin
  \/ AddImagesCommit
  \/ EditAgencyOwned
  \/ DeleteAgencyOwned
  \/ DeleteImageOwned
  \/ SetPrimaryOwned

SpecOwned == InitGallery /\ [][NextOwned]_vars

====
